---- MODULE Spec2Model ----
(***************************************************************************)
(* Quiz session state machine and pool builders of the Streamlit question  *)
(* bank application (src/app.py).                                          *)
(*                                                                         *)
(* A step of the model is one run of the Streamlit script: the run in      *)
(* which a button handler executes ends at st.rerun(), and the following   *)
(* run (Render) draws the page again.  Widget values read by a handler     *)
(* (filters, number input, radio selection) are inputs of that run.        *)
(***************************************************************************)
EXTENDS Integers, Sequences, FiniteSets, TLC

VARIABLES
    bank,        \* the loaded question bank (app.py:207), a sequence of questions
    stats_file,  \* content of qb_data/stats.json (STATS_PATH)
    stats,       \* the module global `stats` as the last script run left it
    qz,          \* st.session_state.quiz
    rerun,       \* TRUE between a handler's st.rerun() and the run it requests
    starts,      \* number of Start quiz clicks so far (bounds the exploration)
    submitted,   \* history: qids submitted since the last Start quiz
    sess_attempts, \* history: attempts appended since the last Start quiz
    out,         \* result of the last pool-builder application (SpecPool, SpecSample)
    edited       \* history: qids whose choices or answer a saved Admin edit changed

vars == <<bank, stats_file, stats, qz, rerun, starts, submitted,
          sess_attempts, out, edited>>

-----------------------------------------------------------------------------
(* Bounds                                                                  *)

MaxStarts == 2
MaxBank == 3
MaxN == 3
MaxRows == 3
MaxImports == 1

-----------------------------------------------------------------------------
(* Data                                                                    *)

QidNames == <<"q1", "q2", "q3", "q4", "q5">>

\* A bank record as ensure_ids leaves it; question text, explanation and
\* attachments are not read by the quiz logic.
Question(i) ==
    [qid      |-> QidNames[i],
     id_num   |-> i,
     category |-> IF i % 2 = 1 THEN "Cardio" ELSE "Renal",
     topic    |-> IF i <= 2 THEN "T1" ELSE "T2",
     choices  |-> <<"A", "B">>,
     answer   |-> IF i % 2 = 1 THEN "A" ELSE "B"]

\* The answer strings that occur as choices
Choices == {"A", "B"}

\* The value of the radio group while nothing is selected (index=None)
NoSelection == "<None>"

\* What the radio group can hand to the Submit handler
Selections == Choices \cup {NoSelection}

EmptyMap == [x \in {} |-> ""]

Put(m, k, v) == [x \in (DOMAIN m) \cup {k} |-> IF x = k THEN v ELSE m[x]]

InSeq(x, s) == \E i \in 1..Len(s) : s[i] = x

\* list.remove(x): drops the first occurrence
RECURSIVE Remove(_, _)
Remove(s, x) ==
    IF s = <<>> THEN <<>>
    ELSE IF Head(s) = x THEN Tail(s)
    ELSE <<Head(s)>> \o Remove(Tail(s), x)

DefaultStats == [user_answers |-> EmptyMap, attempts |-> <<>>, flagged |-> <<>>]

load_stats == stats_file

InitQuiz ==
    [active |-> FALSE, pool |-> <<>>, index |-> 0, score |-> 0,
     show_expl |-> FALSE, choice_order |-> EmptyMap,
     current_quiz_answers |-> EmptyMap]

NoOut == [op |-> "none", cat |-> "All", topic |-> "All", status |-> "All",
          n |-> 0, cand |-> <<>>, res |-> <<>>]

-----------------------------------------------------------------------------
(* Pure functions                                                          *)

\* Faulty variant: every answered question counts as Incorrect
status_of_strict(q, st) ==
    IF q.qid \notin DOMAIN st.user_answers THEN "Unanswered"
    ELSE "Incorrect"

\* Faulty variant: every answered question counts as Correct
status_of_answered(q, st) ==
    IF q.qid \notin DOMAIN st.user_answers THEN "Unanswered"
    ELSE "Correct"

status_of(q, st) ==
    IF q.qid \notin DOMAIN st.user_answers THEN "Unanswered"
    ELSE IF st.user_answers[q.qid] = q.answer THEN "Correct"
    ELSE "Incorrect"

\* Faulty variant: the topic filter is not applied
StandardSkipNoTopic(q, st, cat, topic, status) ==
    IF cat # "All" /\ q.category # cat THEN TRUE
    ELSE IF status # "All" /\ status_of(q, st) # status THEN TRUE
    ELSE FALSE

StandardSkip(q, st, cat, topic, status) ==
    IF cat # "All" /\ q.category # cat THEN TRUE
    ELSE IF topic # "All" /\ q.topic # topic THEN TRUE
    ELSE IF status # "All" /\ status_of(q, st) # status THEN TRUE
    ELSE FALSE

RECURSIVE StandardLoop(_, _, _, _, _, _)
StandardLoop(b, st, cat, topic, status, p) ==
    IF b = <<>> THEN p
    ELSE StandardLoop(Tail(b), st, cat, topic, status,
                      IF StandardSkip(Head(b), st, cat, topic, status)
                      THEN p ELSE Append(p, Head(b)))

build_standard_pool(b, st, cat, topic, status) ==
    StandardLoop(b, st, cat, topic, status, <<>>)

\* The classification loop of build_adaptive_pool: one pass over the bank
\* filling the four lists.
RECURSIVE AdaptiveLoop(_, _, _)
AdaptiveLoop(b, st, acc) ==
    IF b = <<>> THEN acc
    ELSE LET q  == Head(b)
             a1 == IF q.qid \in DOMAIN st.user_answers
                   THEN IF st.user_answers[q.qid] # q.answer
                        THEN [acc EXCEPT !.incorrect = Append(@, q)]
                        ELSE [acc EXCEPT !.rest = Append(@, q)]
                   ELSE [acc EXCEPT !.unanswered = Append(@, q)]
             a2 == IF InSeq(q.qid, st.flagged)
                   THEN [a1 EXCEPT !.flagged = Append(@, q)]
                   ELSE a1
         IN AdaptiveLoop(Tail(b), st, a2)

\* Faulty variant: extend without the membership test
ExtendAll(pool, xs) == pool \o xs

\* pool.extend([q for q in xs if q not in pool])
ExtendNew(pool, xs) == pool \o SelectSeq(xs, LAMBDA q : ~InSeq(q, pool))

\* Faulty variant: unanswered questions are emitted before flagged ones
build_adaptive_pool_swapped(b, st) ==
    LET c  == AdaptiveLoop(b, st, [incorrect |-> <<>>, flagged |-> <<>>,
                                   unanswered |-> <<>>, rest |-> <<>>])
        p1 == c.incorrect
        p2 == ExtendNew(p1, c.unanswered)
        p3 == ExtendNew(p2, c.flagged)
    IN ExtendNew(p3, c.rest)

build_adaptive_pool(b, st) ==
    LET c  == AdaptiveLoop(b, st, [incorrect |-> <<>>, flagged |-> <<>>,
                                   unanswered |-> <<>>, rest |-> <<>>])
        p1 == c.incorrect
        p2 == ExtendNew(p1, c.flagged)
        p3 == ExtendNew(p2, c.unanswered)
    IN ExtendNew(p3, c.rest)

\* Faulty variant: sampling with replacement (random.choices)
RandomChoices(pool, n) ==
    { [i \in 1..n |-> pool[f[i]]] : f \in [1..n -> 1..Len(pool)] }

\* random.sample(pool, n): n elements at pairwise distinct positions
RandomSample(pool, n) ==
    { [i \in 1..n |-> pool[f[i]]] :
        f \in { g \in [1..n -> 1..Len(pool)] :
                  \A i, j \in 1..n : i # j => g[i] # g[j] } }

\* random.shuffle(s): any rearrangement of s
Shuffle(s) == RandomSample(s, Len(s))

\* app.py:341-344
FinalPool(pool, n) ==
    IF Len(pool) < n THEN {pool} ELSE RandomSample(pool, n)

\* app.py:334-338
CandidatePool(b, st, mode, cat, topic, status) ==
    IF mode = "Adaptive" THEN build_adaptive_pool(b, st)
    ELSE build_standard_pool(b, st, cat, topic, status)

Modes == {"Standard", "Adaptive"}
Categories(b) == {"All"} \cup {b[i].category : i \in 1..Len(b)}
Topics(b) == {"All"} \cup {b[i].topic : i \in 1..Len(b)}
Statuses == {"All", "Correct", "Incorrect", "Unanswered"}

\* The values the number input offers (n = 0 when nothing matches)
NumberInput(b, st, cat, topic, status) ==
    LET n_available == Len(build_standard_pool(b, st, cat, topic, status))
    IN IF n_available = 0 THEN {0} ELSE 1..n_available

-----------------------------------------------------------------------------
(* Quiz session                                                            *)

\* The bank of the session model: a question with two choices, which can be
\* answered correctly or incorrectly, and a question with a single choice.
SessionBank == <<Question(1), [Question(2) EXCEPT !.choices = <<"B">>]>>

Init ==
    /\ bank = SessionBank
    /\ stats_file = DefaultStats
    /\ stats = DefaultStats
    /\ qz = InitQuiz
    /\ rerun = FALSE
    /\ starts = 0
    /\ submitted = {}
    /\ sess_attempts = 0
    /\ out = NoOut
    /\ edited = {}

InProgress == qz.active /\ qz.index < Len(qz.pool)
Complete == qz.active /\ qz.index >= Len(qz.pool)
CurQ == qz.pool[qz.index + 1]
answered == CurQ.qid \in DOMAIN qz.current_quiz_answers

\* The qz.update(...) of the Start quiz handler
StartUpdate(final_pool) ==
    [qz EXCEPT !.active = TRUE, !.pool = final_pool, !.index = 0,
               !.score = 0, !.show_expl = FALSE, !.choice_order = EmptyMap]

\* Faulty variant: the button is not disabled for n = 0 and the empty final pool
\* is not rejected
StartQuizUnguarded(mode, cat, topic, status, n) ==
    /\ ~rerun
    /\ ~qz.active
    /\ starts < MaxStarts
    /\ LET pool == CandidatePool(bank, load_stats, mode, cat, topic, status)
       IN \E final_pool \in FinalPool(pool, n) :
            \E shuffled \in Shuffle(final_pool) :
                 qz' = StartUpdate(shuffled)
    /\ stats' = load_stats
    /\ rerun' = TRUE
    /\ starts' = starts + 1
    /\ submitted' = {}
    /\ sess_attempts' = 0
    /\ UNCHANGED <<bank, stats_file, out, edited>>

\* Faulty variant: the Quiz Builder is not disabled during a session
StartQuizWhileActive(mode, cat, topic, status, n) ==
    /\ ~rerun
    /\ n # 0
    /\ starts < MaxStarts
    /\ LET pool == CandidatePool(bank, load_stats, mode, cat, topic, status)
       IN \E final_pool \in FinalPool(pool, n) :
            /\ final_pool # <<>>
            /\ \E shuffled \in Shuffle(final_pool) :
                 qz' = StartUpdate(shuffled)
    /\ stats' = load_stats
    /\ rerun' = TRUE
    /\ starts' = starts + 1
    /\ submitted' = {}
    /\ sess_attempts' = 0
    /\ UNCHANGED <<bank, stats_file, out, edited>>

StartQuiz(mode, cat, topic, status, n) ==
    /\ ~rerun
    /\ ~qz.active
    /\ n # 0
    /\ starts < MaxStarts
    /\ LET pool == CandidatePool(bank, load_stats, mode, cat, topic, status)
       IN \E final_pool \in FinalPool(pool, n) :
            /\ final_pool # <<>>
            /\ \E shuffled \in Shuffle(final_pool) :
                 qz' = StartUpdate(shuffled)
    /\ stats' = load_stats
    /\ rerun' = TRUE
    /\ starts' = starts + 1
    /\ submitted' = {}
    /\ sess_attempts' = 0
    /\ UNCHANGED <<bank, stats_file, out, edited>>

Start ==
    \E mode \in Modes, cat \in Categories(bank), topic \in Topics(bank),
       status \in Statuses :
        \E n \in NumberInput(bank, load_stats, cat, topic, status) :
            StartQuiz(mode, cat, topic, status, n)

\* Faulty variant: the choices are shuffled again on every run of the page
RenderReshuffles ==
    /\ rerun
    /\ rerun' = FALSE
    /\ stats' = load_stats
    /\ IF InProgress
       THEN \E opts \in Shuffle(CurQ.choices) :
              qz' = [qz EXCEPT !.choice_order = Put(@, CurQ.qid, opts)]
       ELSE qz' = qz
    /\ UNCHANGED <<bank, stats_file, starts, submitted, sess_attempts, out, edited>>

\* The run after st.rerun(): draws the page; on a question page it creates
\* current_quiz_answers if missing and fixes the choice order on first visit.
Render ==
    /\ rerun
    /\ rerun' = FALSE
    /\ stats' = load_stats
    /\ IF InProgress /\ CurQ.qid \notin DOMAIN qz.choice_order
       THEN \E opts \in Shuffle(CurQ.choices) :
              qz' = [qz EXCEPT !.choice_order = Put(@, CurQ.qid, opts)]
       ELSE qz' = qz
    /\ UNCHANGED <<bank, stats_file, starts, submitted, sess_attempts, out, edited>>

\* Faulty variant: the radio group is shown although the question was answered
SubmitEnabledAnswered ==
    /\ ~rerun
    /\ InProgress

SubmitEnabled ==
    /\ ~rerun
    /\ InProgress
    /\ ~answered

\* Faulty variant: save_stats is not called
SubmitAnswerNoSave(sel) ==
    /\ SubmitEnabled
    /\ sel # NoSelection
    /\ CurQ.qid \in DOMAIN qz.choice_order
    /\ InSeq(sel, qz.choice_order[CurQ.qid])
    /\ LET qid == CurQ.qid
           correct_answer == CurQ.answer
           s0 == load_stats
           s1 == [s0 EXCEPT
                    !.user_answers = Put(@, qid, sel),
                    !.attempts = Append(@, [qid |-> qid,
                                            correct |-> (sel = correct_answer)])]
       IN /\ stats' = s1
          /\ qz' = [qz EXCEPT
                      !.current_quiz_answers = Put(@, qid, sel),
                      !.score = IF sel = correct_answer THEN @ + 1 ELSE @,
                      !.show_expl = TRUE]
          /\ submitted' = submitted \cup {qid}
    /\ sess_attempts' = sess_attempts + 1
    /\ rerun' = TRUE
    /\ UNCHANGED <<bank, stats_file, starts, out, edited>>

\* Faulty variant: the score is incremented on every submission
SubmitAnswerCountsAll(sel) ==
    /\ SubmitEnabled
    /\ sel # NoSelection
    /\ CurQ.qid \in DOMAIN qz.choice_order
    /\ InSeq(sel, qz.choice_order[CurQ.qid])
    /\ LET qid == CurQ.qid
           correct_answer == CurQ.answer
           s0 == load_stats
           s1 == [s0 EXCEPT
                    !.user_answers = Put(@, qid, sel),
                    !.attempts = Append(@, [qid |-> qid,
                                            correct |-> (sel = correct_answer)])]
       IN /\ stats' = s1
          /\ stats_file' = s1
          /\ qz' = [qz EXCEPT
                      !.current_quiz_answers = Put(@, qid, sel),
                      !.score = @ + 1,
                      !.show_expl = TRUE]
          /\ submitted' = submitted \cup {qid}
    /\ sess_attempts' = sess_attempts + 1
    /\ rerun' = TRUE
    /\ UNCHANGED <<bank, starts, out, edited>>

\* Faulty variant: the answer comes from a free input, not from the radio
\* group over the shuffled choices
SubmitAnswerAnyValue(sel) ==
    /\ SubmitEnabled
    /\ CurQ.qid \in DOMAIN qz.choice_order
    /\ LET qid == CurQ.qid
           correct_answer == CurQ.answer
           s0 == load_stats
           s1 == [s0 EXCEPT
                    !.user_answers = Put(@, qid, sel),
                    !.attempts = Append(@, [qid |-> qid,
                                            correct |-> (sel = correct_answer)])]
       IN /\ stats' = s1
          /\ stats_file' = s1
          /\ qz' = [qz EXCEPT
                      !.current_quiz_answers = Put(@, qid, sel),
                      !.score = IF sel = correct_answer THEN @ + 1 ELSE @,
                      !.show_expl = TRUE]
          /\ submitted' = submitted \cup {qid}
    /\ sess_attempts' = sess_attempts + 1
    /\ rerun' = TRUE
    /\ UNCHANGED <<bank, starts, out, edited>>

\* Faulty variant: every attempt is recorded as correct
SubmitAnswerGradesTrue(sel) ==
    /\ SubmitEnabled
    /\ sel # NoSelection
    /\ CurQ.qid \in DOMAIN qz.choice_order
    /\ InSeq(sel, qz.choice_order[CurQ.qid])
    /\ LET qid == CurQ.qid
           correct_answer == CurQ.answer
           s0 == load_stats
           s1 == [s0 EXCEPT
                    !.user_answers = Put(@, qid, sel),
                    !.attempts = Append(@, [qid |-> qid, correct |-> TRUE])]
       IN /\ stats' = s1
          /\ stats_file' = s1
          /\ qz' = [qz EXCEPT
                      !.current_quiz_answers = Put(@, qid, sel),
                      !.score = IF sel = correct_answer THEN @ + 1 ELSE @,
                      !.show_expl = TRUE]
          /\ submitted' = submitted \cup {qid}
    /\ sess_attempts' = sess_attempts + 1
    /\ rerun' = TRUE
    /\ UNCHANGED <<bank, starts, out, edited>>

\* Faulty variant: the history keeps only the latest attempt
SubmitAnswerKeepsLast(sel) ==
    /\ SubmitEnabled
    /\ sel # NoSelection
    /\ CurQ.qid \in DOMAIN qz.choice_order
    /\ InSeq(sel, qz.choice_order[CurQ.qid])
    /\ LET qid == CurQ.qid
           correct_answer == CurQ.answer
           s0 == load_stats
           s1 == [s0 EXCEPT
                    !.user_answers = Put(@, qid, sel),
                    !.attempts = <<[qid |-> qid,
                                    correct |-> (sel = correct_answer)]>>]
       IN /\ stats' = s1
          /\ stats_file' = s1
          /\ qz' = [qz EXCEPT
                      !.current_quiz_answers = Put(@, qid, sel),
                      !.score = IF sel = correct_answer THEN @ + 1 ELSE @,
                      !.show_expl = TRUE]
          /\ submitted' = submitted \cup {qid}
    /\ sess_attempts' = sess_attempts + 1
    /\ rerun' = TRUE
    /\ UNCHANGED <<bank, starts, out, edited>>

SubmitAnswer(sel) ==
    /\ SubmitEnabled
    /\ sel # NoSelection
    /\ CurQ.qid \in DOMAIN qz.choice_order
    /\ InSeq(sel, qz.choice_order[CurQ.qid])
    /\ LET qid == CurQ.qid
           correct_answer == CurQ.answer
           s0 == load_stats
           s1 == [s0 EXCEPT
                    !.user_answers = Put(@, qid, sel),
                    !.attempts = Append(@, [qid |-> qid,
                                            correct |-> (sel = correct_answer)])]
       IN /\ stats' = s1
          /\ stats_file' = s1
          /\ qz' = [qz EXCEPT
                      !.current_quiz_answers = Put(@, qid, sel),
                      !.score = IF sel = correct_answer THEN @ + 1 ELSE @,
                      !.show_expl = TRUE]
          /\ submitted' = submitted \cup {qid}
    /\ sess_attempts' = sess_attempts + 1
    /\ rerun' = TRUE
    /\ UNCHANGED <<bank, starts, out, edited>>

Submit == \E sel \in Selections : SubmitAnswer(sel)

\* Faulty variant: a flag click always appends the qid
ToggleFlagAppends ==
    /\ ~rerun
    /\ InProgress
    /\ LET s0 == load_stats
           s1 == [s0 EXCEPT !.flagged = Append(@, CurQ.qid)]
       IN /\ stats' = s1
          /\ stats_file' = s1
    /\ UNCHANGED <<bank, qz, rerun, starts, submitted, sess_attempts, out, edited>>

ToggleFlag ==
    /\ ~rerun
    /\ InProgress
    /\ LET qid == CurQ.qid
           s0 == load_stats
           s1 == IF InSeq(qid, s0.flagged)
                 THEN [s0 EXCEPT !.flagged = Remove(@, qid)]
                 ELSE [s0 EXCEPT !.flagged = Append(@, qid)]
       IN /\ stats' = s1
          /\ stats_file' = s1
    /\ UNCHANGED <<bank, qz, rerun, starts, submitted, sess_attempts, out, edited>>

NextEnabled ==
    /\ ~rerun
    /\ InProgress
    /\ answered

\* Faulty variant: the index moves on by two
NextQuestionSkips ==
    /\ NextEnabled
    /\ qz' = [qz EXCEPT !.index = @ + 2, !.show_expl = FALSE]
    /\ stats' = load_stats
    /\ rerun' = TRUE
    /\ UNCHANGED <<bank, stats_file, starts, submitted, sess_attempts, out, edited>>

NextQuestion ==
    /\ NextEnabled
    /\ qz' = [qz EXCEPT !.index = @ + 1, !.show_expl = FALSE]
    /\ stats' = load_stats
    /\ rerun' = TRUE
    /\ UNCHANGED <<bank, stats_file, starts, submitted, sess_attempts, out, edited>>

EndSession ==
    /\ ~rerun
    /\ Complete
    /\ qz' = [qz EXCEPT !.active = FALSE]
    /\ stats' = load_stats
    /\ rerun' = TRUE
    /\ UNCHANGED <<bank, stats_file, starts, submitted, sess_attempts, out, edited>>

\* A new browser session: st.session_state is empty, the quiz dict is
\* created again; the files on disk stay.
Reload ==
    /\ ~rerun
    /\ qz' = InitQuiz
    /\ stats' = load_stats
    /\ submitted' = {}
    /\ sess_attempts' = 0
    /\ UNCHANGED <<bank, stats_file, rerun, starts, out, edited>>

Next ==
    \/ Start
    \/ Render
    \/ Submit
    \/ ToggleFlag
    \/ NextQuestion
    \/ EndSession
    \/ Reload

Spec == Init /\ [][Next]_vars

-----------------------------------------------------------------------------
(* Pool builders applied to arbitrary banks and histories: the initial     *)
(* state draws the inputs, one step applies a builder and keeps its result *)
(* in out.                                                                 *)

\* Sequences of k pairwise distinct elements of the set S
InjSeqs(S, k) ==
    { f \in [1..k -> S] : \A i, j \in 1..k : i # j => f[i] # f[j] }

\* Banks with unique qids, in any order
PoolBanks ==
    UNION { InjSeqs({Question(i) : i \in 1..MaxBank}, k) : k \in 0..MaxBank }

BankQids(b) == {b[i].qid : i \in 1..Len(b)}

\* Histories over the questions of bank b: any subset answered with any
\* choice, any subset flagged, one attempt per recorded answer.
HistoryOf(b, ua, F) ==
    LET ans == SelectSeq(b, LAMBDA q : q.qid \in DOMAIN ua)
        fq  == SelectSeq(b, LAMBDA q : q.qid \in F)
    IN [user_answers |-> ua,
        attempts |-> [i \in 1..Len(ans) |->
                        [qid |-> ans[i].qid,
                         correct |-> (ua[ans[i].qid] = ans[i].answer)]],
        flagged |-> [i \in 1..Len(fq) |-> fq[i].qid]]

PoolHistories(b) ==
    { HistoryOf(b, ua, F) :
        ua \in UNION { [S -> Choices] : S \in SUBSET BankQids(b) },
        F \in SUBSET BankQids(b) }

InitPool ==
    /\ bank \in PoolBanks
    /\ stats_file \in PoolHistories(bank)
    /\ stats = stats_file
    /\ qz = InitQuiz
    /\ rerun = FALSE
    /\ starts = 0
    /\ submitted = {}
    /\ sess_attempts = 0
    /\ out = NoOut
    /\ edited = {}

BuildStandard(cat, topic, status) ==
    /\ out.op = "none"
    /\ out' = [NoOut EXCEPT !.op = "standard", !.cat = cat, !.topic = topic,
                            !.status = status,
                            !.res = build_standard_pool(bank, stats, cat, topic, status)]
    /\ UNCHANGED <<bank, stats_file, stats, qz, rerun, starts,
                   submitted, sess_attempts, edited>>

BuildAdaptive ==
    /\ out.op = "none"
    /\ out' = [NoOut EXCEPT !.op = "adaptive",
                            !.res = build_adaptive_pool(bank, stats)]
    /\ UNCHANGED <<bank, stats_file, stats, qz, rerun, starts,
                   submitted, sess_attempts, edited>>

NextPool ==
    \/ \E cat \in Categories(bank), topic \in Topics(bank), status \in Statuses :
           BuildStandard(cat, topic, status)
    \/ BuildAdaptive

SpecPool == InitPool /\ [][NextPool]_vars

-----------------------------------------------------------------------------
(* Selection of the session pool (app.py:341-351) for any requested count  *)

InitSample ==
    /\ bank \in PoolBanks
    /\ stats_file = DefaultStats
    /\ stats = DefaultStats
    /\ qz = InitQuiz
    /\ rerun = FALSE
    /\ starts = 0
    /\ submitted = {}
    /\ sess_attempts = 0
    /\ out = NoOut
    /\ edited = {}

SelectPool(cat, topic, n) ==
    /\ out.op = "none"
    /\ n # 0
    /\ LET pool == build_standard_pool(bank, stats, cat, topic, "All")
       IN \E final_pool \in FinalPool(pool, n) :
            /\ final_pool # <<>>
            /\ \E shuffled \in Shuffle(final_pool) :
                 out' = [NoOut EXCEPT !.op = "start", !.cat = cat, !.topic = topic,
                                      !.n = n, !.cand = pool, !.res = shuffled]
    /\ UNCHANGED <<bank, stats_file, stats, qz, rerun, starts,
                   submitted, sess_attempts, edited>>

NextSample ==
    \E cat \in Categories(bank), topic \in Topics(bank), n \in 0..MaxN :
        SelectPool(cat, topic, n)

SpecSample == InitSample /\ [][NextSample]_vars

-----------------------------------------------------------------------------
(* Bank maintenance: ID assignment at load (app.py:172-185, 207-210) and   *)
(* bulk import from an uploaded sheet (app.py:719-754)                     *)

\* uuid.uuid4().hex[:10] values, in the order they are drawn
Uuids == <<"u1", "u2", "u3", "u4", "u5", "u6", "u7", "u8">>

FreshQid(b) ==
    Uuids[Cardinality({i \in DOMAIN b : /\ "qid" \in DOMAIN b[i]
                                        /\ InSeq(b[i].qid, Uuids)}) + 1]

\* dict.setdefault(k, v)
SetDefault(q, k, v) == IF k \in DOMAIN q THEN q ELSE Put(q, k, v)

\* A dict without key k
Without(q, k) == [x \in (DOMAIN q) \ {k} |-> q[x]]

SeqMax(s) == CHOOSE m \in {s[i] : i \in DOMAIN s} : \A i \in DOMAIN s : s[i] <= m

\* The loop of ensure_ids over the questions not yet visited
RECURSIVE EnsureLoop(_, _, _)
EnsureLoop(done, rest, next_id) ==
    IF rest = <<>> THEN done
    ELSE LET q0 == Head(rest)
             q1 == SetDefault(q0, "qid", FreshQid(done \o rest))
             q2 == IF "id_num" \notin DOMAIN q1
                   THEN Put(q1, "id_num", next_id)
                   ELSE q1
             q3 == SetDefault(q2, "choices", <<>>)
         IN EnsureLoop(Append(done, q3), Tail(rest),
                       IF "id_num" \notin DOMAIN q1 THEN next_id + 1 ELSE next_id)

ensure_ids(b) ==
    LET existing_ids == [i \in DOMAIN b |->
                           IF "id_num" \in DOMAIN b[i] THEN b[i].id_num ELSE 0]
        next_id == IF existing_ids # <<>> THEN SeqMax(existing_ids) + 1 ELSE 1
    IN EnsureLoop(<<>>, b, next_id)

\* Cells of the DataFrame read by pd.read_excel: an empty cell is NaN
NaN == [kind |-> "nan", val |-> ""]
Text(v) == [kind |-> "str", val |-> v]
None == [kind |-> "none", val |-> ""]

\* r.get(col) and r.get(col, default) on a row of DataFrame df
Get(df, r, col) == IF col \in df.columns THEN r[col] ELSE None
GetOr(df, r, col, default) == IF col \in df.columns THEN r[col] ELSE Text(default)

\* bool(x): None and the empty string are false, NaN (a float other than
\* zero) is true
Truthy(c) ==
    CASE c.kind = "none" -> FALSE
      [] c.kind = "nan"  -> TRUE
      [] c.kind = "str"  -> c.val # ""

\* str(x)
Str(c) ==
    CASE c.kind = "none" -> "None"
      [] c.kind = "nan"  -> "nan"
      [] c.kind = "str"  -> c.val

\* pd.notna(x)
NotNa(c) == c.kind = "str"

ChoiceColumns(df) == SelectSeq(<<"choice1", "choice2">>, LAMBDA c : c \in df.columns)

\* The choices list comprehension of the import loop
RowChoices(df, r) ==
    LET cols == SelectSeq(ChoiceColumns(df), LAMBDA c : NotNa(r[c]))
    IN [i \in 1..Len(cols) |-> Str(r[cols[i]])]

\* The loop `for _, r in df.iterrows()` over the rows not yet visited
RECURSIVE ImportLoop(_, _, _)
ImportLoop(b, df, rows) ==
    IF rows = <<>> THEN b
    ELSE LET r == Head(rows)
         IN IF ~Truthy(Get(df, r, "question")) \/ ~Truthy(Get(df, r, "answer"))
            THEN ImportLoop(b, df, Tail(rows))
            ELSE ImportLoop(
                   Append(b, [qid      |-> FreshQid(b),
                              id_num   |-> Len(b) + 1,
                              category |-> Str(GetOr(df, r, "category", "")),
                              topic    |-> Str(GetOr(df, r, "topic", "")),
                              choices  |-> RowChoices(df, r),
                              answer   |-> Str(GetOr(df, r, "answer", ""))]),
                   df, Tail(rows))

\* The Import Questions button: the rows are appended and the bank is saved;
\* the session and the history are not touched.
Import(df) ==
    /\ ~rerun
    /\ bank' = ImportLoop(bank, df, df.rows)
    /\ stats' = load_stats
    /\ UNCHANGED <<stats_file, qz, rerun, starts, submitted, sess_attempts, out, edited>>

\* Bank files as a first run may find them: questions with or without an
\* id_num, the id_nums present unique but not necessarily contiguous
WithId(q, id) == IF id = 0 THEN Without(q, "id_num") ELSE [q EXCEPT !.id_num = id]

RawBanks ==
    UNION { { [i \in 1..k |-> WithId(Question(i), ids[i])] :
                ids \in { f \in [1..k -> 0..MaxBank] :
                            \A i, j \in 1..k :
                                (i # j /\ f[i] # 0) => f[i] # f[j] } } :
            k \in 0..MaxBank }

\* Uploaded sheets: a row has a question text or an empty question cell, an
\* answer or an empty answer cell, one filled and one empty choice cell
AllColumns == {"question", "answer", "choice1", "choice2", "category", "topic"}

SheetRows ==
    { [question |-> qc, answer |-> ac, choice1 |-> Text("A"), choice2 |-> NaN,
       category |-> Text("Cardio"), topic |-> Text("T1")] :
        qc \in {NaN, Text("Q")}, ac \in {NaN, Text("A")} }

Sheets ==
    { [columns |-> cols, rows |-> rows] :
        cols \in {AllColumns, AllColumns \ {"answer"}, AllColumns \ {"question"}},
        rows \in UNION { [1..k -> SheetRows] : k \in 0..MaxRows } }

InitBank ==
    /\ bank \in {ensure_ids(raw) : raw \in RawBanks}
    /\ stats_file = DefaultStats
    /\ stats = DefaultStats
    /\ qz = InitQuiz
    /\ rerun = FALSE
    /\ starts = 0
    /\ submitted = {}
    /\ sess_attempts = 0
    /\ out = NoOut
    /\ edited = {}

NextBank ==
    \E df \in Sheets :
        /\ Len(bank) < MaxBank
        /\ Import(df)

SpecBank == InitBank /\ [][NextBank]_vars

-----------------------------------------------------------------------------
(* The quiz session with imports into the bank between its steps           *)

\* Sheets of one complete row with every column present
SessionSheets ==
    { df \in Sheets : /\ Len(df.rows) = 1
                      /\ df.columns = AllColumns
                      /\ NotNa(df.rows[1].question)
                      /\ NotNa(df.rows[1].answer) }

Imported(b) == Cardinality({i \in DOMAIN b : InSeq(b[i].qid, Uuids)})

InitImport ==
    /\ bank = <<[Question(1) EXCEPT !.choices = <<"A">>]>>
    /\ stats_file = DefaultStats
    /\ stats = DefaultStats
    /\ qz = InitQuiz
    /\ rerun = FALSE
    /\ starts = 0
    /\ submitted = {}
    /\ sess_attempts = 0
    /\ out = NoOut
    /\ edited = {}

SessionImport ==
    \E df \in SessionSheets :
        /\ Imported(bank) < MaxImports
        /\ Import(df)

\* One browser session
NextImport ==
    \/ Start
    \/ Render
    \/ Submit
    \/ ToggleFlag
    \/ NextQuestion
    \/ EndSession
    \/ SessionImport

SpecImport == InitImport /\ [][NextImport]_vars

-----------------------------------------------------------------------------
(* The quiz session with Admin edits of the bank between its steps         *)
(* (app.py:616-659)                                                        *)

\* line.strip()
Strip(line) == IF line = " " THEN "" ELSE line

\* [line for line in choices_text.splitlines() if line.strip()]
NonBlank(lines) == SelectSeq(lines, LAMBDA line : Strip(line) # "")

\* Save Changes on question i of the bank with the values of the editor's
\* inputs; the session keeps the question dicts it was started with.
AdminSave(i, cat, topic, lines, ans) ==
    /\ ~rerun
    /\ i \in DOMAIN bank
    /\ bank' = [bank EXCEPT ![i] = [@ EXCEPT !.category = cat,
                                             !.topic = topic,
                                             !.choices = NonBlank(lines),
                                             !.answer = ans]]
    /\ edited' = IF bank'[i].choices # bank[i].choices \/ bank'[i].answer # bank[i].answer
                 THEN edited \cup {bank[i].qid}
                 ELSE edited
    /\ stats' = load_stats
    /\ UNCHANGED <<stats_file, qz, rerun, starts, submitted, sess_attempts, out>>

\* Contents of the choices text area
EditLines == {<<"A", "B">>, <<"B">>, <<" ", "B">>, <<>>}

\* A bank of one question whose answer is not among its choices
InitAdmin ==
    /\ bank = <<[Question(1) EXCEPT !.choices = <<"B">>]>>
    /\ stats_file = DefaultStats
    /\ stats = DefaultStats
    /\ qz = InitQuiz
    /\ rerun = FALSE
    /\ starts = 0
    /\ submitted = {}
    /\ sess_attempts = 0
    /\ out = NoOut
    /\ edited = {}

AdminEdit ==
    \E i \in DOMAIN bank, lines \in EditLines, ans \in Choices :
        AdminSave(i, bank[i].category, bank[i].topic, lines, ans)

NextAdmin ==
    \/ Next
    \/ AdminEdit

SpecAdmin == InitAdmin /\ [][NextAdmin]_vars

-----------------------------------------------------------------------------
(* The quiz session with Admin edits that leave the answers as they are    *)

ChoicesEdit ==
    \E i \in DOMAIN bank, lines \in EditLines :
        AdminSave(i, bank[i].category, bank[i].topic, lines, bank[i].answer)

NextChoices ==
    \/ Next
    \/ ChoicesEdit

SpecChoices == InitAdmin /\ [][NextChoices]_vars

-----------------------------------------------------------------------------
(* Properties of the quiz session (checked under Spec)                     *)

\* C1: immediately after any Start quiz step, index = 0, score = 0,
\* show_expl is false, choice_order is empty and current_quiz_answers is
\* empty.
C1_StartResetsSession ==
    [][Start => /\ qz'.index = 0
                /\ qz'.score = 0
                /\ qz'.show_expl = FALSE
                /\ qz'.choice_order = EmptyMap
                /\ qz'.current_quiz_answers = EmptyMap]_vars

\* C2: a Next Question step is taken only when show_expl is true and the
\* current question was submitted since the last Start; it increments index
\* by exactly 1 and sets show_expl to false.
C2_AdvanceOnlyAfterSubmit ==
    [][NextQuestion => /\ qz.show_expl
                       /\ CurQ.qid \in submitted
                       /\ qz'.index = qz.index + 1
                       /\ qz'.show_expl = FALSE]_vars

\* C3: a Submit of selection s on the current question q records
\* current_quiz_answers[q.qid] = s and user_answers[q.qid] = s, appends
\* exactly one attempt {qid, correct = (s = q.answer)} at the end of
\* attempts, leaves the saved history equal to the history in memory, and
\* sets show_expl.
C3_SubmitRecords ==
    [][\A s \in Choices :
         SubmitAnswer(s) =>
           /\ CurQ.qid \in DOMAIN qz'.current_quiz_answers
           /\ qz'.current_quiz_answers[CurQ.qid] = s
           /\ CurQ.qid \in DOMAIN stats_file'.user_answers
           /\ stats_file'.user_answers[CurQ.qid] = s
           /\ stats_file'.attempts =
                Append(stats_file.attempts,
                       [qid |-> CurQ.qid, correct |-> (s = CurQ.answer)])
           /\ stats' = stats_file'
           /\ qz'.show_expl = TRUE]_vars

\* C3 witness: a Submit has just run and replaced an earlier recorded answer
\* to the same question by a different one.
C3_Witness ==
    /\ rerun
    /\ qz.show_expl
    /\ LET a == stats_file.attempts
       IN /\ Len(a) >= 2
          /\ \E i \in 1..(Len(a) - 1) :
               /\ a[i].qid = a[Len(a)].qid
               /\ a[i].correct # a[Len(a)].correct

\* C4: Submit is possible only while the session is in progress and the
\* current question has not been submitted since the last Start; every
\* question is submitted at most once per session, so the attempts appended
\* since the last Start never exceed len(pool).
C4_OneSubmitPerQuestion ==
    /\ sess_attempts <= Len(qz.pool)
    /\ sess_attempts = Cardinality(submitted)
    /\ (ENABLED Submit) => (InProgress /\ CurQ.qid \notin submitted)

\* C4 witness: every question of a two-question pool has been submitted.
C4_Witness ==
    /\ qz.active
    /\ Len(qz.pool) = 2
    /\ sess_attempts = 2

\* C5: within a session the score never decreases; a Submit adds exactly 1
\* when the selection equals the answer and 0 otherwise; Next Question, the
\* flag toggle, End and redrawing leave it unchanged.  (Start, and a new
\* browser session, create the score of another session.)
C5_ScoreMonotone ==
    [][/\ \A s \in Choices :
            SubmitAnswer(s) =>
              qz'.score = qz.score + (IF s = CurQ.answer THEN 1 ELSE 0)
       /\ (NextQuestion \/ ToggleFlag \/ EndSession \/ Render) =>
              qz'.score = qz.score
       /\ (qz'.score < qz.score) => (Start \/ Reload)]_vars

\* C5 witness: a session with one correct and one incorrect submission.
C5_Witness ==
    /\ qz.active
    /\ Cardinality(submitted) = 2
    /\ qz.score = 1

\* C7: while no quiz is active, no Start quiz step happens for a mode and
\* filters whose candidate pool is empty, whatever the requested count;
\* every active session has a pool of at least one question.
C7_EmptyPoolRejected ==
    /\ [](qz.active => Len(qz.pool) >= 1)
    /\ [][(~qz.active) =>
            \A mode \in Modes, cat \in Categories(bank), topic \in Topics(bank),
               status \in Statuses :
               CandidatePool(bank, stats_file, mode, cat, topic, status) = <<>>
                  => \A n \in 0..MaxN : ~StartQuiz(mode, cat, topic, status, n)]_vars

\* C7 witness: after an earlier session, the builder is shown (no quiz
\* active) and some filter choice matches no question of the bank.
C7_Witness ==
    /\ ~qz.active
    /\ ~rerun
    /\ starts >= 1
    /\ starts < MaxStarts
    /\ \E cat \in Categories(bank), topic \in Topics(bank), status \in Statuses :
         /\ build_standard_pool(bank, stats_file, cat, topic, status) = <<>>
         /\ NumberInput(bank, stats_file, cat, topic, status) = {0}

-----------------------------------------------------------------------------
(* Properties of the pool selection (checked under SpecSample)             *)

\* C6: a selection from a candidate pool of size m with requested count n
\* has n questions when m >= n and m questions (all of the candidate pool)
\* when m < n; its questions are pairwise distinct members of the candidate
\* pool.
C6_Sampling ==
    out.op = "start" =>
      LET m == Len(out.cand)
          n == out.n
          r == out.res
      IN /\ (m >= n) => (Len(r) = n)
         /\ (m < n) => /\ Len(r) = m
                       /\ \A i \in 1..m : InSeq(out.cand[i], r)
         /\ \A i, j \in 1..Len(r) : i # j => r[i].qid # r[j].qid
         /\ \A i \in 1..Len(r) : InSeq(r[i], out.cand)

\* C6 witness: two questions selected out of three candidates.
C6_Witness ==
    /\ out.op = "start"
    /\ Len(out.cand) = 3
    /\ out.n = 2
    /\ Len(out.res) = 2

-----------------------------------------------------------------------------
(* Properties of the pool builders (checked under SpecPool)                *)

IsIncorrect(q) ==
    q.qid \in DOMAIN stats.user_answers /\ stats.user_answers[q.qid] # q.answer
IsCorrect(q) ==
    q.qid \in DOMAIN stats.user_answers /\ stats.user_answers[q.qid] = q.answer
IsUnanswered(q) == q.qid \notin DOMAIN stats.user_answers
IsFlagged(q) == InSeq(q.qid, stats.flagged)

BankPos(q) == CHOOSE i \in 1..Len(bank) : bank[i] = q

\* C8: the adaptive pool contains every question of the bank exactly once.
C8_AdaptiveComplete ==
    out.op = "adaptive" =>
      /\ Len(out.res) = Len(bank)
      /\ \A i \in 1..Len(bank) :
           Cardinality({j \in 1..Len(out.res) : out.res[j] = bank[i]}) = 1

\* C8 witness: a three-question bank with a flagged incorrect, a flagged
\* unanswered and a flagged correct question.
C8_Witness ==
    /\ out.op = "adaptive"
    /\ Len(bank) = 3
    /\ \E i, j, k \in 1..3 :
         /\ IsFlagged(bank[i]) /\ IsIncorrect(bank[i])
         /\ IsFlagged(bank[j]) /\ IsUnanswered(bank[j])
         /\ IsFlagged(bank[k]) /\ IsCorrect(bank[k])

\* Priority group of a question: 0 incorrect, 1 flagged and not incorrect,
\* 2 unanswered and not flagged, 3 the rest.
Rank(q) ==
    IF IsIncorrect(q) THEN 0
    ELSE IF IsFlagged(q) THEN 1
    ELSE IF IsUnanswered(q) THEN 2
    ELSE 3

ExampleBank == <<Question(3), Question(2), Question(1)>>
ExampleHistory ==
    HistoryOf(ExampleBank, [x \in {"q1", "q2"} |-> "B"], {"q2"})

\* C9: in the adaptive pool the priority groups appear in the order
\* incorrect, flagged, unanswered, rest, each group in bank order; with Q1
\* incorrect, Q2 flagged and correct, Q3 unanswered the pool is
\* [Q1, Q2, Q3].
C9_AdaptiveOrder ==
    out.op = "adaptive" =>
      /\ \A i, j \in 1..Len(out.res) :
           i < j =>
             \/ Rank(out.res[i]) < Rank(out.res[j])
             \/ /\ Rank(out.res[i]) = Rank(out.res[j])
                /\ BankPos(out.res[i]) < BankPos(out.res[j])
      /\ (bank = ExampleBank /\ stats = ExampleHistory) =>
           out.res = <<Question(1), Question(2), Question(3)>>

\* C9 witness: the adaptive pool of the example (bank stored as Q3, Q2, Q1).
C9_Witness ==
    /\ out.op = "adaptive"
    /\ bank = ExampleBank
    /\ stats = ExampleHistory
    /\ IsIncorrect(Question(1))
    /\ IsFlagged(Question(2)) /\ IsCorrect(Question(2))
    /\ IsUnanswered(Question(3))

Passes(q, cat, topic, status) ==
    /\ cat = "All" \/ q.category = cat
    /\ topic = "All" \/ q.topic = topic
    /\ \/ status = "All"
       \/ status = "Unanswered" /\ IsUnanswered(q)
       \/ status = "Correct" /\ IsCorrect(q)
       \/ status = "Incorrect" /\ IsIncorrect(q)

\* C10: the standard pool holds exactly the bank questions that pass the
\* category, topic and status filters together, in bank order.
C10_StandardFilter ==
    out.op = "standard" =>
      /\ \A i \in 1..Len(bank) :
           Passes(bank[i], out.cat, out.topic, out.status) <=> InSeq(bank[i], out.res)
      /\ \A i \in 1..Len(out.res) : InSeq(out.res[i], bank)
      /\ \A i, j \in 1..Len(out.res) :
           i < j => BankPos(out.res[i]) < BankPos(out.res[j])

\* C10 witness: three active filters, each of which alone excludes a
\* question the other two admit, and a question that passes all three.
C10_Witness ==
    /\ out.op = "standard"
    /\ out.cat # "All" /\ out.topic # "All" /\ out.status # "All"
    /\ Len(bank) = 3
    /\ Len(out.res) = 1
    /\ \E i \in 1..3 :
         /\ bank[i].category = out.cat
         /\ bank[i].topic # out.topic
         /\ Passes(bank[i], out.cat, "All", out.status)

-----------------------------------------------------------------------------
(* Further properties of the quiz session (checked under Spec)             *)

Count(x, s) == Cardinality({i \in DOMAIN s : s[i] = x})

IsPermutation(s, t) ==
    /\ Len(s) = Len(t)
    /\ \A i \in DOMAIN t : Count(t[i], s) = Count(t[i], t)

\* C11: once choice_order[qid] is set in a session it is not changed by
\* Submit, Next Question, Flag toggle, End or a re-render, and it is always
\* a permutation (same elements, same multiplicities) of the choices of the
\* pool question with that qid.
C11_ChoiceOrderStable ==
    /\ [](\A qid \in DOMAIN qz.choice_order :
            \E i \in DOMAIN qz.pool :
                /\ qz.pool[i].qid = qid
                /\ IsPermutation(qz.choice_order[qid], qz.pool[i].choices))
    /\ [][(Submit \/ NextQuestion \/ ToggleFlag \/ Render \/ EndSession) =>
            \A qid \in DOMAIN qz.choice_order :
                /\ qid \in DOMAIN qz'.choice_order
                /\ qz'.choice_order[qid] = qz.choice_order[qid]]_vars

\* An order other than the stored one, still in place after the question
\* was submitted and left behind
C11_Witness ==
    /\ qz.active
    /\ qz.index >= 1
    /\ qz.pool[1].qid \in DOMAIN qz.choice_order
    /\ qz.pool[1].qid \in submitted
    /\ qz.choice_order[qz.pool[1].qid] # qz.pool[1].choices
    /\ Len(stats_file.flagged) >= 1

\* C13: a Flag toggle flips the membership of the current question's qid in
\* flagged (so two toggles restore it) and of no other qid, flagged never
\* holds a qid twice, and the toggle leaves pool, index, score, show_expl,
\* user_answers and attempts unchanged.
C13_FlagToggle ==
    /\ [](\A i, j \in DOMAIN stats_file.flagged :
            stats_file.flagged[i] = stats_file.flagged[j] => i = j)
    /\ [][ToggleFlag =>
            /\ InSeq(CurQ.qid, stats_file'.flagged)
                  = ~InSeq(CurQ.qid, stats_file.flagged)
            /\ \A k \in DOMAIN QidNames :
                  QidNames[k] # CurQ.qid =>
                    InSeq(QidNames[k], stats_file'.flagged)
                      = InSeq(QidNames[k], stats_file.flagged)
            /\ qz'.pool = qz.pool
            /\ qz'.index = qz.index
            /\ qz'.score = qz.score
            /\ qz'.show_expl = qz.show_expl
            /\ stats_file'.user_answers = stats_file.user_answers
            /\ stats_file'.attempts = stats_file.attempts
            /\ stats' = stats_file']_vars

\* The second question is flagged while the first, flagged earlier, was
\* unflagged again after an answer had been recorded
C13_Witness ==
    /\ InProgress
    /\ qz.index = 1
    /\ stats_file.flagged = <<CurQ.qid>>
    /\ qz.score = 1
    /\ Len(stats_file.attempts) >= 1

\* C18: while a session is active 0 <= index <= len(pool); it is in progress
\* when index < len(pool) and complete when index = len(pool); a session
\* starts in progress, each Next Question moves index up by one from a
\* position below len(pool), so the completion screen is reached by the
\* len(pool)-th Next Question; on the completion screen
\* 0 <= score <= len(pool) and neither Submit nor Next Question is possible.
C18_SessionShape ==
    /\ [](qz.active =>
            /\ qz.index \in 0..Len(qz.pool)
            /\ InProgress = (qz.index < Len(qz.pool))
            /\ Complete = (qz.index = Len(qz.pool)))
    /\ [](Complete =>
            /\ qz.score \in 0..Len(qz.pool)
            /\ ~ENABLED Submit
            /\ ~ENABLED NextQuestion)
    /\ [][/\ Start => (qz'.index = 0 /\ qz'.index < Len(qz'.pool))
          /\ NextQuestion => (qz.index < Len(qz.pool) /\ qz'.index = qz.index + 1)
          /\ (qz.active /\ qz'.active /\ qz.index < Len(qz.pool)
                        /\ qz'.index = Len(qz'.pool))
               => (NextQuestion /\ qz.index = Len(qz.pool) - 1)]_vars

\* The completion screen of a two-question session with both answers right
C18_Witness ==
    /\ Complete
    /\ ~rerun
    /\ Len(qz.pool) = 2
    /\ qz.index = 2
    /\ qz.score = 2

\* C19: End is available on the completion screen and also, as a forced
\* end, while the session is in progress; it sets active to false and
\* changes nothing in the history.
C19_EndFromAnyActive ==
    /\ []((qz.active /\ ~rerun) => ENABLED EndSession)
    /\ [][EndSession => /\ ~qz'.active
                        /\ stats_file' = stats_file]_vars

-----------------------------------------------------------------------------
(* Properties of bank maintenance (checked under SpecBank)                 *)

IdNums(b) == [i \in DOMAIN b |-> b[i].id_num]

\* C15: every question created by load-time ID assignment or by bulk import
\* gets id_num = (largest id_num present before it) + 1, so that from any
\* bank with unique id_nums no two questions ever share an id_num.
C15_UniqueIdNums ==
    /\ [](\A i, j \in DOMAIN bank : bank[i].id_num = bank[j].id_num => i = j)
    /\ [][\A i \in (Len(bank) + 1)..Len(bank') :
            bank'[i].id_num =
              (IF i = 1 THEN 0 ELSE SeqMax(SubSeq(IdNums(bank'), 1, i - 1))) + 1]_vars

\* A row counts as complete when its question and answer cells are filled
FilledRows(df) ==
    SelectSeq(df.rows, LAMBDA r : /\ "question" \in df.columns
                                  /\ "answer" \in df.columns
                                  /\ NotNa(r.question)
                                  /\ NotNa(r.answer))

\* C16: a bulk import skips every row whose question or answer cell is
\* missing and adds every other row as exactly one new question, with that
\* row's answer.
C16_ImportSkipsMissing ==
    [][\A df \in Sheets :
         Import(df) =>
           /\ Len(bank') = Len(bank) + Len(FilledRows(df))
           /\ SubSeq(bank', 1, Len(bank)) = bank
           /\ \A i \in 1..(Len(bank') - Len(bank)) :
                 /\ i <= Len(FilledRows(df))
                 /\ bank'[Len(bank) + i].answer = Str(FilledRows(df)[i].answer)]_vars

-----------------------------------------------------------------------------
(* Properties of the session with imports (checked under SpecImport)       *)

\* C14: across Start, Submit, Next Question, Flag toggle, End and Import
\* steps the attempts list only grows at its end: every earlier list is a
\* prefix of every later one, only Submit extends it, and by exactly one
\* record.
C14_AttemptsAppendOnly ==
    [][/\ Len(stats_file'.attempts) >= Len(stats_file.attempts)
       /\ SubSeq(stats_file'.attempts, 1, Len(stats_file.attempts))
             = stats_file.attempts
       /\ (stats_file'.attempts # stats_file.attempts)
            => (Submit /\ Len(stats_file'.attempts)
                            = Len(stats_file.attempts) + 1)]_vars

\* Two sessions and an import have left attempts on the first question and
\* on the imported one
C14_Witness ==
    /\ Len(stats_file.attempts) = 2
    /\ stats_file.attempts[1].qid = "q1"
    /\ InSeq(stats_file.attempts[2].qid, Uuids)
    /\ starts = 2
    /\ Len(stats_file.flagged) >= 1

\* C17: while a session is active no step (Submit, Next Question, Flag
\* toggle, Import, an attempt to start) changes pool; Start is taken only
\* when no session is active; index is changed only by Next Question (+1)
\* and by Start (to 0), and Submit leaves it unchanged.  (A Start step is
\* a step that counts up starts.)
C17_PoolFixed ==
    [][/\ qz.active => qz'.pool = qz.pool
       /\ (starts' # starts) => ~qz.active
       /\ (qz'.index # qz.index) =>
             \/ NextQuestion /\ qz'.index = qz.index + 1
             \/ starts' # starts /\ qz'.index = 0
       /\ Submit => qz'.index = qz.index]_vars

\* A session past its first question whose pool lacks a question the bank
\* has received by import
C17_Witness ==
    /\ qz.active
    /\ qz.index >= 1
    /\ \E i \in DOMAIN bank :
          /\ InSeq(bank[i].qid, Uuids)
          /\ \A j \in DOMAIN qz.pool : qz.pool[j].qid # bank[i].qid
    /\ Len(stats_file.attempts) >= 1

-----------------------------------------------------------------------------
(* Properties of the session with Admin edits (checked under SpecAdmin)    *)

\* C12: Submit does nothing while no choice is selected or when the
\* selection is not in the current question's shuffled choice list; every
\* value Submit records is one of the choices of the question as the
\* session holds it; a question with zero choices is displayed but cannot
\* be submitted.
C12_SubmitNeedsChoice ==
    /\ [][\A s \in Selections :
            SubmitAnswer(s) =>
              /\ s # NoSelection
              /\ InSeq(s, qz.choice_order[CurQ.qid])
              /\ InSeq(s, CurQ.choices)
              /\ CurQ.qid \in DOMAIN stats_file'.user_answers
              /\ InSeq(stats_file'.user_answers[CurQ.qid], CurQ.choices)]_vars
    /\ []((InProgress /\ CurQ.choices = <<>>) => ~ENABLED Submit)

\* The page of a question with zero choices
C12_Witness ==
    /\ InProgress
    /\ ~rerun
    /\ CurQ.choices = <<>>
    /\ CurQ.qid \in DOMAIN qz.choice_order
    /\ qz.choice_order[CurQ.qid] = <<>>

\* No Submit on a question whose answer is not among its choices is graded
\* correct or raises the score
WrongAnswerNeverGraded ==
    \A s \in Selections :
        (SubmitAnswer(s) /\ ~InSeq(CurQ.answer, CurQ.choices)) =>
          /\ stats_file'.attempts # <<>>
          /\ stats_file'.attempts[Len(stats_file'.attempts)]
                = [qid |-> CurQ.qid, correct |-> FALSE]
          /\ qz'.score = qz.score

\* C20: a question whose answer is not a member of its choices is never
\* marked correct: no Submit on it gives an attempt with correct = true or
\* raises the score, and whenever it has an entry in user_answers its
\* status is Incorrect.
C20_NeverCorrect ==
    /\ [][WrongAnswerNeverGraded]_vars
    /\ [](\A i \in DOMAIN bank :
            (/\ ~InSeq(bank[i].answer, bank[i].choices)
             /\ bank[i].qid \in DOMAIN stats_file.user_answers)
              => status_of(bank[i], stats_file) = "Incorrect")

\* C20, amended: the same for a question whose choices and answer no saved
\* Admin edit has changed, starting from an empty history.
C20_NeverCorrectUnedited ==
    /\ [][WrongAnswerNeverGraded]_vars
    /\ [](\A i \in DOMAIN bank :
            (/\ ~InSeq(bank[i].answer, bank[i].choices)
             /\ bank[i].qid \notin edited
             /\ bank[i].qid \in DOMAIN stats_file.user_answers)
              => status_of(bank[i], stats_file) = "Incorrect")

\* An unedited question with its answer outside its choices was submitted
C20_Witness ==
    /\ edited = {}
    /\ ~InSeq(bank[1].answer, bank[1].choices)
    /\ bank[1].qid \in DOMAIN stats_file.user_answers
    /\ stats_file.attempts # <<>>
    /\ qz.active
    /\ bank[1].qid \in DOMAIN qz.current_quiz_answers

-----------------------------------------------------------------------------
(* Properties of the classifier (checked under SpecPool)                   *)

\* C21: for every question and history status_of returns exactly one of
\* Unanswered, Correct, Incorrect; Unanswered iff the qid has no entry in
\* user_answers, Correct iff the recorded answer equals the question's
\* answer; applying it (in the standard builder's status filter) changes
\* neither the bank nor the history.
C21_ClassifierTotal ==
    /\ [](\A i \in DOMAIN bank :
            LET q == bank[i]
            IN /\ status_of(q, stats) \in {"Unanswered", "Correct", "Incorrect"}
               /\ (status_of(q, stats) = "Unanswered")
                    = (q.qid \notin DOMAIN stats.user_answers)
               /\ (status_of(q, stats) = "Correct")
                    = (/\ q.qid \in DOMAIN stats.user_answers
                       /\ stats.user_answers[q.qid] = q.answer)
               /\ (status_of(q, stats) = "Incorrect")
                    = (/\ q.qid \in DOMAIN stats.user_answers
                       /\ stats.user_answers[q.qid] # q.answer))
    /\ [][/\ bank' = bank
          /\ stats' = stats
          /\ stats_file' = stats_file]_vars

\* The status filter was applied to a bank holding a question of each status
C21_Witness ==
    /\ out.op = "standard"
    /\ out.status = "Incorrect"
    /\ Len(out.res) = 1
    /\ \E i, j, k \in DOMAIN bank :
          /\ status_of(bank[i], stats) = "Unanswered"
          /\ status_of(bank[j], stats) = "Correct"
          /\ status_of(bank[k], stats) = "Incorrect"

-----------------------------------------------------------------------------
(* Further properties of the session with Admin edits (SpecAdmin)          *)

\* C22: every started session can be finished: on every page of an active
\* session the step that carries it on towards the completion screen and
\* back to idle is available, Submit or Next Question on a question page
\* (also for a question with zero choices) and End on the completion screen.
C22_SessionCanFinish ==
    (qz.active /\ ~rerun) =>
        IF Complete
        THEN ENABLED EndSession
        ELSE (ENABLED Submit) \/ (ENABLED NextQuestion)

-----------------------------------------------------------------------------
(* Further properties of the quiz session (Spec)                           *)

\* C23: on the completion screen of any session the score equals the number
\* of pool questions whose answer held in current_quiz_answers equals the
\* question's answer, and every pool question has an entry in
\* current_quiz_answers written by a Submit of this session.
C23_FinalScore ==
    Complete =>
        /\ \A i \in DOMAIN qz.pool :
              /\ qz.pool[i].qid \in DOMAIN qz.current_quiz_answers
              /\ qz.pool[i].qid \in submitted
        /\ qz.score =
              Cardinality({i \in DOMAIN qz.pool :
                             /\ qz.pool[i].qid \in DOMAIN qz.current_quiz_answers
                             /\ qz.current_quiz_answers[qz.pool[i].qid]
                                  = qz.pool[i].answer})

\* C24: in adaptive mode the candidate pool is the whole bank as ordered by
\* build_adaptive_pool whatever the filter values are, and with a non-empty
\* bank an adaptive Start is possible for every filter setting and every
\* count from 1 to the bank size.
C24_AdaptiveIgnoresFilters ==
    (~qz.active /\ ~rerun /\ starts < MaxStarts /\ bank # <<>>) =>
        \A cat \in Categories(bank), topic \in Topics(bank), status \in Statuses :
            /\ CandidatePool(bank, load_stats, "Adaptive", cat, topic, status)
                 = build_adaptive_pool(bank, load_stats)
            /\ Len(build_adaptive_pool(bank, load_stats)) = Len(bank)
            /\ \A n \in 1..Len(bank) :
                 /\ n \in NumberInput(bank, load_stats, cat, topic, status)
                 /\ ENABLED StartQuiz("Adaptive", cat, topic, status, n)

-----------------------------------------------------------------------------
(* Properties of the history when no answer is edited (SpecChoices)        *)

BankQuestion(qid) == bank[CHOOSE i \in DOMAIN bank : bank[i].qid = qid]

\* C25: starting from an empty history and with no question's answer
\* edited, every qid in user_answers has a record in attempts, and the
\* correct flag of its latest record equals (user_answers[qid] = answer of
\* that question), that is, it is true exactly when status_of is Correct.
C25_HistoryConsistent ==
    \A qid \in DOMAIN stats_file.user_answers :
        \E k \in DOMAIN stats_file.attempts :
            /\ stats_file.attempts[k].qid = qid
            /\ \A j \in DOMAIN stats_file.attempts :
                  j > k => stats_file.attempts[j].qid # qid
            /\ stats_file.attempts[k].correct
                  = (stats_file.user_answers[qid] = BankQuestion(qid).answer)
            /\ stats_file.attempts[k].correct
                  = (status_of(BankQuestion(qid), stats_file) = "Correct")

\* A question answered right and, in a later browser session and after an
\* edit of its choices, wrong
C25_Witness ==
    /\ Len(stats_file.attempts) = 2
    /\ stats_file.attempts[1].qid = stats_file.attempts[2].qid
    /\ stats_file.attempts[1].correct
    /\ ~stats_file.attempts[2].correct
    /\ edited # {}

====
